---- MODULE Spec2Model ----
(***************************************************************************)
(* photo-sorter: renames the image files of a directory with a zero-padded *)
(* sequence number in chronological (EXIF DateTimeOriginal) order, and     *)
(* reverts that renaming.  Model of src/src/main.rs.                       *)
(*                                                                         *)
(* Strings are sequences of one-character strings; byte offsets are the    *)
(* 0-based positions of Rust's str (the names used here are ASCII).        *)
(***************************************************************************)
EXTENDS Integers, Sequences, FiniteSets, TLC

VARIABLES
    dir,         \* the directory: a set of entries [name, id, isDir, meta]
    args,        \* cli::Args: [delim, test, desc, revert]
    files,       \* main's `files`: the listed paths (file names)
    listed,      \* the value list_images returned (history of `files`)
    prefix_len,  \* main's `prefix_len`
    i,           \* 0-based index of the next file of main's loop
    out,         \* the lines printed so far (stdout and stderr)
    pc,          \* position in main
    exit,        \* how the process ended
    inp,         \* inputs of a function applied on its own
    res          \* its result

vars == <<dir, args, files, listed, prefix_len, i, out, pc, exit, inp, res>>

(* ------------------------------ bounds --------------------------------- *)

MaxFiles == 3     \* entries of the directory
MaxNum == 120     \* numbers given to create_prefix on its own
MaxLen == 4       \* widths given to create_prefix on its own
MaxBatch == 101   \* files of a batch when only the prefixes are computed
MaxIndex == 11    \* indexes given to the name transforms on their own
MaxWidth == 2     \* widths given to the name transforms on their own
MaxTime == 11     \* capture times given to the comparator on its own

(* ------------------------------ strings -------------------------------- *)

\* Option<T>: None is the empty sequence, Some(x) the sequence of x alone
None == <<>>

Some(x) == <<x>>

DigitChars == <<"0", "1", "2", "3", "4", "5", "6", "7", "8", "9">>

UpperChars == <<"A", "B", "C", "D", "E", "F", "G", "H", "I", "J", "K", "L", "M",
                "N", "O", "P", "Q", "R", "S", "T", "U", "V", "W", "X", "Y", "Z">>

LowerChars == <<"a", "b", "c", "d", "e", "f", "g", "h", "i", "j", "k", "l", "m",
                "n", "o", "p", "q", "r", "s", "t", "u", "v", "w", "x", "y", "z">>

IsDigit(c) == \E k \in 1..10 : DigitChars[k] = c

DigitVal(c) == (CHOOSE k \in 1..10 : DigitChars[k] = c) - 1

\* usize::to_string: the decimal digits, most significant first, no padding
RECURSIVE to_string(_)
to_string(n) ==
    IF n < 10 THEN <<DigitChars[n + 1]>>
    ELSE to_string(n \div 10) \o <<DigitChars[(n % 10) + 1]>>

\* char::to_ascii_lowercase
lower_char(c) ==
    IF \E k \in 1..26 : UpperChars[k] = c
    THEN LowerChars[CHOOSE k \in 1..26 : UpperChars[k] = c]
    ELSE c

to_ascii_lowercase(s) == [k \in 1..Len(s) |-> lower_char(s[k])]

\* str::cmp on strings of digits: byte-wise lexicographic, a proper prefix is Less
RECURSIVE str_cmp(_, _)
str_cmp(s, t) ==
    IF s = <<>> /\ t = <<>> THEN "Equal"
    ELSE IF s = <<>> THEN "Less"
    ELSE IF t = <<>> THEN "Greater"
    ELSE IF DigitVal(Head(s)) < DigitVal(Head(t)) THEN "Less"
    ELSE IF DigitVal(Head(s)) > DigitVal(Head(t)) THEN "Greater"
    ELSE str_cmp(Tail(s), Tail(t))

\* str::find: the 0-based offset of the first occurrence of pat, or None
find(s, pat) ==
    LET hits == {p \in 0..(Len(s) - Len(pat)) :
                    SubSeq(s, p + 1, p + Len(pat)) = pat}
    IN IF hits = {} THEN None
       ELSE Some(CHOOSE p \in hits : \A q \in hits : p <= q)

\* &s[from..]: None stands for the panic when from is past the end of s
slice_from(s, from) ==
    IF from > Len(s) THEN None ELSE Some(SubSeq(s, from + 1, Len(s)))

\* Path::extension: what follows the last '.', None without one or when the
\* only '.' starts the name
extension(name) ==
    LET dots == {p \in 1..Len(name) : name[p] = "."}
    IN IF dots = {} THEN None
       ELSE LET p == CHOOSE q \in dots : \A r \in dots : r <= q
            IN IF p = 1 THEN None ELSE Some(SubSeq(name, p + 1, Len(name)))

(* --------------------------- prefix functions -------------------------- *)

get_prefix_len_of_last_index(files_len) == Len(to_string(files_len - 1))

get_prefix_len(files_len) == Len(to_string(files_len))

RECURSIVE zeros(_)
zeros(k) == IF k <= 0 THEN <<>> ELSE <<"0">> \o zeros(k - 1)

create_prefix_truncating(num, len) ==
    LET s == to_string(num)
    IN IF len < Len(s) THEN SubSeq(s, Len(s) - len + 1, Len(s))
       ELSE zeros(len - Len(s)) \o s

create_prefix(num, len) ==
    LET s == to_string(num)
    IN IF len < Len(s) THEN s
       ELSE zeros(len - Len(s)) \o s

\* format!("{prefix}{delim}{org}") of rename_file and test_rename_file
prefixed_name(org, index, plen, delim) ==
    create_prefix(index + 1, plen) \o delim \o org

\* org.find(delim) and &org[prefix_index + 2..] of revert_file and
\* test_revert_file: "NoMatch" without the delimiter, "Panic" when the slice
\* starts past the end of the name, else "Name" and the reverted name
reverted_name(org, delim) ==
    LET p == find(org, delim)
    IN IF p = None THEN [tag |-> "NoMatch", name |-> <<>>]
       ELSE LET sl == slice_from(org, p[1] + 2)
            IN IF sl = None THEN [tag |-> "Panic", name |-> <<>>]
               ELSE [tag |-> "Name", name |-> sl[1]]

(* ------------------------------ comparator ----------------------------- *)

\* What the file system and the EXIF reader give for a file: it cannot be
\* opened ("NoOpen"), its container cannot be parsed ("BadExif"), it has no
\* DateTimeOriginal field ("NoTag"), or it has one ("Time", captured at t).
NoOpen == [kind |-> "NoOpen", t |-> 0]

BadExif == [kind |-> "BadExif", t |-> 0]

NoTag == [kind |-> "NoTag", t |-> 0]

Time(t) == [kind |-> "Time", t |-> t]

\* characters of a rendered capture time (the EXIF date-time has a fixed width)
TimeWidth == 2

\* t.display_value().to_string(): the capture time, zero-padded to TimeWidth
display_value(t) == zeros(TimeWidth - Len(to_string(t))) \o to_string(t)

sort_by_time_swapped(f1, f2) ==
    IF f1.kind = "NoOpen" \/ f2.kind = "NoOpen" THEN "Equal"
    ELSE IF f1.kind # "BadExif" /\ f2.kind # "BadExif" THEN
        IF f1.kind = "Time" /\ f2.kind = "Time"
            THEN str_cmp(display_value(f1.t), display_value(f2.t))
        ELSE IF f1.kind = "Time" /\ f2.kind = "NoTag" THEN "Greater"
        ELSE IF f1.kind = "NoTag" /\ f2.kind = "Time" THEN "Less"
        ELSE "Equal"
    ELSE IF f1.kind # "BadExif" /\ f2.kind = "BadExif" THEN "Less"
    ELSE IF f1.kind = "BadExif" /\ f2.kind # "BadExif" THEN "Greater"
    ELSE "Equal"

sort_by_time(f1, f2) ==
    IF f1.kind = "NoOpen" \/ f2.kind = "NoOpen" THEN "Equal"
    ELSE IF f1.kind # "BadExif" /\ f2.kind # "BadExif" THEN
        IF f1.kind = "Time" /\ f2.kind = "Time"
            THEN str_cmp(display_value(f1.t), display_value(f2.t))
        ELSE IF f1.kind = "Time" /\ f2.kind = "NoTag" THEN "Less"
        ELSE IF f1.kind = "NoTag" /\ f2.kind = "Time" THEN "Greater"
        ELSE "Equal"
    ELSE IF f1.kind # "BadExif" /\ f2.kind = "BadExif" THEN "Less"
    ELSE IF f1.kind = "BadExif" /\ f2.kind # "BadExif" THEN "Greater"
    ELSE "Equal"

(* ------------------------------ file system ---------------------------- *)

Names(d) == {e.name : e \in d}

entry(d, name) == CHOOSE e \in d : e.name = name

\* fs::File::open(path) and the read of its EXIF data: a path that names
\* nothing cannot be opened
read_file(d, path) ==
    IF path \in Names(d) THEN entry(d, path).meta ELSE NoOpen

\* fs::rename(from, to); env_ok is FALSE when the system refuses the move
\* (permissions, a read-only volume).  An existing file `to` is replaced; a
\* directory `to`, a missing `from` and an empty name fail.
fs_rename(d, from, to, env_ok) ==
    IF ~env_ok \/ from \notin Names(d) \/ to = <<>> THEN [ok |-> FALSE, dir |-> d]
    ELSE IF from = to THEN [ok |-> TRUE, dir |-> d]
    ELSE IF to \in Names(d) /\ entry(d, to).isDir THEN [ok |-> FALSE, dir |-> d]
    ELSE LET e == entry(d, from)
             kept == {x \in d : x.name # from /\ x.name # to}
         IN [ok |-> TRUE, dir |-> kept \cup {[e EXCEPT !.name = to]}]

(* -------------------------------- sorting ------------------------------ *)

\* one step of the insertion sort of slice::sort_by: x moves left past every
\* element it is Less than
RECURSIVE insert_tail(_, _, _)
insert_tail(d, sorted, x) ==
    IF sorted = <<>> THEN <<x>>
    ELSE LET last == sorted[Len(sorted)]
         IN IF sort_by_time(read_file(d, x), read_file(d, last)) = "Less"
            THEN Append(insert_tail(d, SubSeq(sorted, 1, Len(sorted) - 1), x), last)
            ELSE Append(sorted, x)

\* files.sort_by(sort_by_time): the stable sort (an insertion sort for the
\* slices of up to 20 elements)
RECURSIVE sort_by(_, _)
sort_by(d, fs) ==
    IF fs = <<>> THEN <<>>
    ELSE insert_tail(d, sort_by(d, SubSeq(fs, 1, Len(fs) - 1)), fs[Len(fs)])

reverse(fs) == [k \in 1..Len(fs) |-> fs[Len(fs) + 1 - k]]

RECURSIVE insert_tail_desc(_, _, _)
insert_tail_desc(d, sorted, x) ==
    IF sorted = <<>> THEN <<x>>
    ELSE LET last == sorted[Len(sorted)]
         IN IF sort_by_time(read_file(d, last), read_file(d, x)) = "Less"
            THEN Append(insert_tail_desc(d, SubSeq(sorted, 1, Len(sorted) - 1), x), last)
            ELSE Append(sorted, x)

RECURSIVE sort_by_desc(_, _)
sort_by_desc(d, fs) ==
    IF fs = <<>> THEN <<>>
    ELSE insert_tail_desc(d, sort_by_desc(d, SubSeq(fs, 1, Len(fs) - 1)), fs[Len(fs)])

sorted_files_resorting(d, fs, a) ==
    IF ~a.revert
    THEN IF a.desc THEN sort_by_desc(d, fs) ELSE sort_by(d, fs)
    ELSE fs

\* main: sorts unless reverting, and reverses the sorted sequence with --desc
sorted_files(d, fs, a) ==
    IF ~a.revert
    THEN IF a.desc THEN reverse(sort_by(d, fs)) ELSE sort_by(d, fs)
    ELSE fs

(* ------------------------------ the program ---------------------------- *)

\* the names, delimiters and file contents the directory is drawn from
N_a == <<"a", ".", "j", "p", "g">>

N_1a == <<"1", "_", "_", "a", ".", "j", "p", "g">>

N_b == <<"b", ".", "H", "E", "I", "C">>

N_txt == <<"n", ".", "t", "x", "t">>

DefaultDelim == <<"_", "_">>

Delims == {DefaultDelim, <<"g">>}

Times == {2, 10}

Metas == {NoOpen, BadExif, NoTag} \cup {Time(t) : t \in Times}

EntryPool ==
    {[name |-> n, id |-> n, isDir |-> FALSE, meta |-> m] :
        n \in {N_a, N_1a, N_b}, m \in Metas}
    \cup {[name |-> N_txt, id |-> N_txt, isDir |-> FALSE, meta |-> NoTag]}
    \cup {[name |-> N_1a, id |-> <<"d">>, isDir |-> TRUE, meta |-> NoOpen]}

Directories ==
    UNION {{{f[n] : n \in S} : f \in {g \in [S -> EntryPool] : \A n \in S : g[n].name = n}} :
           S \in {T \in SUBSET Names(EntryPool) : Cardinality(T) <= MaxFiles}}

SupportedExts ==
    {<<"j", "p", "g">>, <<"j", "p", "e", "g">>, <<"h", "e", "i", "c">>,
     <<"h", "e", "i", "f">>}

\* the filter of list_images: not a directory, and a supported extension
is_image(e) ==
    /\ ~e.isDir
    /\ extension(e.name) # None
    /\ to_ascii_lowercase(extension(e.name)[1]) \in SupportedExts

Orders(S) ==
    {o \in [1..Cardinality(S) -> S] : \A a, b \in DOMAIN o : a # b => o[a] # o[b]}

Line(tag, file, to) == [tag |-> tag, file |-> file, to |-> to]

Init ==
    /\ dir \in Directories
    /\ args \in [delim : Delims, test : BOOLEAN, desc : BOOLEAN, revert : BOOLEAN]
    /\ files = <<>>
    /\ listed = <<>>
    /\ prefix_len = 0
    /\ i = 0
    /\ out = <<>>
    /\ pc = "list"
    /\ exit = "running"
    /\ inp = <<>>
    /\ res = <<>>

\* list_images: read_dir yields the entries in an order of its own
list_images ==
    /\ pc = "list"
    /\ \E o \in Orders({e.name : e \in {x \in dir : is_image(x)}}) :
        /\ files' = o
        /\ listed' = o
    /\ pc' = "sort"
    /\ UNCHANGED <<dir, args, prefix_len, i, out, exit, inp, res>>

\* list_images: read_dir fails and main returns the error
list_images_fails ==
    /\ pc = "list"
    /\ pc' = "failed"
    /\ exit' = "Err"
    /\ out' = Append(out, Line("Failed to list files.", <<>>, <<>>))
    /\ UNCHANGED <<dir, args, files, listed, prefix_len, i, inp, res>>

\* main: the sort, the reversal and the prefix width
sort_files ==
    /\ pc = "sort"
    /\ files' = sorted_files(dir, files, args)
    /\ prefix_len' = get_prefix_len(Len(files))
    /\ i' = 0
    /\ pc' = "loop"
    /\ UNCHANGED <<dir, args, listed, out, exit, inp, res>>

InLoop == pc = "loop" /\ i < Len(files)

rename_file_aborting ==
    /\ InLoop /\ ~args.revert /\ ~args.test
    /\ \E env_ok \in BOOLEAN :
        LET file == files[i + 1]
            to == prefixed_name(file, i, prefix_len, args.delim)
            r == fs_rename(dir, file, to, env_ok)
        IN /\ dir' = r.dir
           /\ out' = Append(out, Line(IF r.ok THEN "Renamed" ELSE "Err", file, to))
           /\ i' = i + 1
           /\ pc' = IF r.ok THEN "loop" ELSE "done"
           /\ exit' = IF r.ok THEN exit ELSE "Err"
    /\ UNCHANGED <<args, files, listed, prefix_len, inp, res>>

\* main, (false, false): rename_file on the next file; an error is printed
rename_file ==
    /\ InLoop /\ ~args.revert /\ ~args.test
    /\ \E env_ok \in BOOLEAN :
        LET file == files[i + 1]
            to == prefixed_name(file, i, prefix_len, args.delim)
            r == fs_rename(dir, file, to, env_ok)
        IN /\ dir' = r.dir
           /\ out' = Append(out, Line(IF r.ok THEN "Renamed" ELSE "Err", file, to))
    /\ i' = i + 1
    /\ UNCHANGED <<args, files, listed, prefix_len, pc, exit, inp, res>>

\* main, (false, true): test_rename_file on the next file
test_rename_file ==
    /\ InLoop /\ ~args.revert /\ args.test
    /\ out' = Append(out, Line("Test", files[i + 1],
                               prefixed_name(files[i + 1], i, prefix_len, args.delim)))
    /\ i' = i + 1
    /\ UNCHANGED <<dir, args, files, listed, prefix_len, pc, exit, inp, res>>

\* main, (true, false): revert_file on the next file; an error is printed
revert_file ==
    /\ InLoop /\ args.revert /\ ~args.test
    /\ LET file == files[i + 1]
           rv == reverted_name(file, args.delim)
       IN CASE rv.tag = "NoMatch" ->
                /\ out' = Append(out, Line("NotProcessed", file, <<>>))
                /\ i' = i + 1
                /\ UNCHANGED <<dir, pc, exit>>
            [] rv.tag = "Panic" ->
                /\ out' = Append(out, Line("Panic", file, <<>>))
                /\ pc' = "done"
                /\ exit' = "Panic"
                /\ UNCHANGED <<dir, i>>
            [] OTHER ->
                \E env_ok \in BOOLEAN :
                    LET r == fs_rename(dir, file, rv.name, env_ok)
                    IN /\ dir' = r.dir
                       /\ out' = Append(out, Line(IF r.ok THEN "Reverted" ELSE "Err",
                                                  file, rv.name))
                       /\ i' = i + 1
                       /\ UNCHANGED <<pc, exit>>
    /\ UNCHANGED <<args, files, listed, prefix_len, inp, res>>

\* main, (true, true): test_revert_file on the next file
test_revert_file ==
    /\ InLoop /\ args.revert /\ args.test
    /\ LET file == files[i + 1]
           rv == reverted_name(file, args.delim)
       IN CASE rv.tag = "NoMatch" ->
                /\ out' = Append(out, Line("NotRenamed", file, <<>>))
                /\ i' = i + 1
                /\ UNCHANGED <<pc, exit>>
            [] rv.tag = "Panic" ->
                /\ out' = Append(out, Line("Panic", file, <<>>))
                /\ pc' = "done"
                /\ exit' = "Panic"
                /\ UNCHANGED i
            [] OTHER ->
                /\ out' = Append(out, Line("Test", file, rv.name))
                /\ i' = i + 1
                /\ UNCHANGED <<pc, exit>>
    /\ UNCHANGED <<dir, args, files, listed, prefix_len, inp, res>>

\* main: the loop is over, Ok(())
main_returns ==
    /\ pc = "loop" /\ i = Len(files)
    /\ pc' = "done"
    /\ exit' = "Ok"
    /\ UNCHANGED <<dir, args, files, listed, prefix_len, i, out, inp, res>>

Next ==
    \/ list_images
    \/ list_images_fails
    \/ sort_files
    \/ rename_file
    \/ test_rename_file
    \/ revert_file
    \/ test_revert_file
    \/ main_returns

Spec == Init /\ [][Next]_vars

(* ------------------- the functions applied on their own ---------------- *)

\* main's variables when only a function is applied
Apart ==
    /\ dir = {}
    /\ args = [delim |-> DefaultDelim, test |-> FALSE, desc |-> FALSE, revert |-> FALSE]
    /\ files = <<>>
    /\ listed = <<>>
    /\ prefix_len = 0
    /\ i = 0
    /\ out = <<>>
    /\ exit = "running"

ApartVars == <<dir, args, files, listed, prefix_len, i, out, exit>>

\* create_prefix(num, len)
InitCreatePrefix ==
    /\ Apart
    /\ pc = "call"
    /\ inp \in [num : 0..MaxNum, len : 0..MaxLen]
    /\ res = <<>>

call_create_prefix ==
    /\ pc = "call"
    /\ res' = create_prefix(inp.num, inp.len)
    /\ pc' = "ret"
    /\ UNCHANGED <<ApartVars, inp>>

SpecCreatePrefix == InitCreatePrefix /\ [][call_create_prefix]_vars

\* the prefixes of two files, at indexes a <= b, of a batch of n files
InitBatch ==
    /\ Apart
    /\ pc = "call"
    /\ inp \in {x \in [n : 1..MaxBatch, a : 0..(MaxBatch - 1), b : 0..(MaxBatch - 1)] :
                  x.a <= x.b /\ x.b < x.n}
    /\ res = <<>>

\* main: prefix_len = get_prefix_len(files.len()), then for each (index, file)
\* rename_file's create_prefix(index + 1, prefix_len)
batch_prefixes ==
    /\ pc = "call"
    /\ res' = LET len == get_prefix_len(inp.n)
              IN [len |-> len,
                  pa |-> create_prefix(inp.a + 1, len),
                  pb |-> create_prefix(inp.b + 1, len)]
    /\ pc' = "ret"
    /\ UNCHANGED <<ApartVars, inp>>

SpecBatch == InitBatch /\ [][batch_prefixes]_vars

\* the names and the two-character delimiters given to the name transforms
OrigNames == {N_a, N_1a, N_b, <<"1", "1", ".", "j", "p", "g">>}

DelimChars == {"_", "1", "a"}

Delims2 == {<<c1, c2>> : c1 \in DelimChars, c2 \in DelimChars}

InitName ==
    /\ Apart
    /\ pc = "call"
    /\ inp \in [orig : OrigNames, index : 0..MaxIndex, width : 0..MaxWidth,
                delim : Delims2]
    /\ res = <<>>

\* rename_file's new name, then revert_file's new name for it
rename_then_revert ==
    /\ pc = "call"
    /\ res' = LET name == prefixed_name(inp.orig, inp.index, inp.width, inp.delim)
              IN [name |-> name, reverted |-> reverted_name(name, inp.delim)]
    /\ pc' = "ret"
    /\ UNCHANGED <<ApartVars, inp>>

SpecName == InitName /\ [][rename_then_revert]_vars

\* the comparator on three files
CmpMetas == {NoOpen, BadExif, NoTag} \cup {Time(t) : t \in 0..MaxTime}

InitCmp ==
    /\ Apart
    /\ pc = "call"
    /\ inp \in [a : CmpMetas, b : CmpMetas, c : CmpMetas]
    /\ res = <<>>

compare ==
    /\ pc = "call"
    /\ res' = [ab |-> sort_by_time(inp.a, inp.b), ba |-> sort_by_time(inp.b, inp.a),
               bc |-> sort_by_time(inp.b, inp.c), cb |-> sort_by_time(inp.c, inp.b),
               ac |-> sort_by_time(inp.a, inp.c), ca |-> sort_by_time(inp.c, inp.a)]
    /\ pc' = "ret"
    /\ UNCHANGED <<ApartVars, inp>>

SpecCmp == InitCmp /\ [][compare]_vars

(* ------------------------------- properties ---------------------------- *)

\* the number of decimal digits of n
DigitCount(n) == CHOOSE k \in 1..6 : n < 10^k /\ (k = 1 \/ n >= 10^(k - 1))

\* the number a string of digits denotes
RECURSIVE Parse(_)
Parse(s) ==
    IF s = <<>> THEN 0
    ELSE 10 * Parse(SubSeq(s, 1, Len(s) - 1)) + DigitVal(s[Len(s)])

Reverse(o) == IF o = "Less" THEN "Greater" ELSE IF o = "Greater" THEN "Less" ELSE o

\* C1: reverting the name that renaming orig built, with a delimiter of two
\* characters, gives orig back
C1_RoundTrip ==
    pc = "ret" => res.reverted = [tag |-> "Name", name |-> inp.orig]

\* C3, as claimed: compared directly, a file with no readable timestamp sorts
\* before a file with a readable timestamp
C3_NoTimestampFirst ==
    (pc = "ret" /\ inp.a.kind # "Time" /\ inp.b.kind = "Time") => res.ab = "Less"

\* C3, amended: compared directly, a file with a readable timestamp sorts
\* before a file with none that can be opened (Less one way, Greater the
\* other); with a file that cannot be opened the comparison is Equal
C3_TimestampFirst ==
    (pc = "ret" /\ inp.a.kind # "Time" /\ inp.b.kind = "Time") =>
        IF inp.a.kind = "NoOpen"
        THEN res.ab = "Equal" /\ res.ba = "Equal"
        ELSE res.ab = "Greater" /\ res.ba = "Less"

C3_Witness ==
    pc = "ret" /\ inp.a.kind = "NoTag" /\ inp.b.kind = "Time" /\ res.ab = "Greater"

\* C4: the comparator is a consistent, transitive order: cmp(a,b) is the
\* reverse of cmp(b,a), Less is transitive and Equal is transitive
C4_ConsistentOrder ==
    pc = "ret" =>
        /\ res.ab = Reverse(res.ba)
        /\ (res.ab = "Less" /\ res.bc = "Less") => res.ac = "Less"
        /\ (res.ab = "Equal" /\ res.bc = "Equal") => res.ac = "Equal"

\* C5: in a batch of n files the width is the digit count of n, every prefix
\* has that many characters, and the prefixes order lexically as the positions
C5_SharedWidth ==
    pc = "ret" =>
        /\ res.len = DigitCount(inp.n)
        /\ Len(res.pa) = res.len
        /\ Len(res.pb) = res.len
        /\ Parse(res.pa) = inp.a + 1
        /\ Parse(res.pb) = inp.b + 1
        /\ (inp.a < inp.b <=> str_cmp(res.pa, res.pb) = "Less")
        /\ (inp.a = inp.b <=> str_cmp(res.pa, res.pb) = "Equal")

C5_Witness ==
    /\ pc = "ret" /\ inp.n = 100 /\ inp.a = 8 /\ inp.b = 9
    /\ res.pa = <<"0", "0", "9">> /\ res.pb = <<"0", "1", "0">>

\* C6: create_prefix(num, len) is num in decimal, left-padded with '0' to len
\* characters when it has at most len digits and unpadded when it has more;
\* its value is num
C6_CreatePrefix ==
    pc = "ret" =>
        /\ \A k \in 1..Len(res) : IsDigit(res[k])
        /\ Parse(res) = inp.num
        /\ IF DigitCount(inp.num) <= inp.len
           THEN /\ Len(res) = inp.len
                /\ \A k \in 1..(inp.len - DigitCount(inp.num)) : res[k] = "0"
           ELSE /\ Len(res) = DigitCount(inp.num)
                /\ res = to_string(inp.num)

C6_Witness ==
    /\ pc = "ret" /\ inp.num = 100 /\ inp.len = 2 /\ res = <<"1", "0", "0">>

Pos(fs, x) == CHOOSE k \in 1..Len(fs) : fs[k] = x

RenameMode == ~args.revert /\ ~args.test

RevertMode == args.revert /\ ~args.test

Sorted == pc = "loop" /\ i = 0

\* C2: after the ascending sort, every two files with a readable capture
\* time are in chronological order, whatever else is listed
C2_Chronological ==
    (Sorted /\ ~args.revert /\ ~args.desc) =>
        \A a, b \in 1..Len(files) :
            LET fa == read_file(dir, files[a])
                fb == read_file(dir, files[b])
            IN (a < b /\ fa.kind = "Time" /\ fb.kind = "Time") => fa.t <= fb.t

\* C7: with --desc the sequence is the reverse of the ascending stable sort
\* of the listing, so files that compare Equal are in the reverse of their
\* listing order
C7_DescReverses ==
    (Sorted /\ ~args.revert /\ args.desc) =>
        LET asc == sort_by(dir, listed)
            n == Len(listed)
        IN /\ Len(files) = n
           /\ \A k \in 1..n : files[k] = asc[n + 1 - k]
           /\ \A a, b \in 1..n :
                (a < b /\ sort_by_time(read_file(dir, listed[a]),
                                       read_file(dir, listed[b])) = "Equal")
                    => Pos(files, listed[b]) < Pos(files, listed[a])

C7_Witness ==
    /\ Sorted /\ ~args.revert /\ args.desc
    /\ listed = <<N_a, N_b, N_1a>>
    /\ read_file(dir, N_a) = NoTag
    /\ read_file(dir, N_b) = NoTag
    /\ read_file(dir, N_1a) = Time(2)
    /\ files = <<N_b, N_a, N_1a>>

\* the line printed for the file at position k names it and numbers it k
Numbered(line, k) ==
    LET plen == Len(line.to) - Len(args.delim) - Len(files[k])
    IN /\ line.file = files[k]
       /\ plen >= 1
       /\ Parse(SubSeq(line.to, 1, plen)) = k
       /\ SubSeq(line.to, plen + 1, plen + Len(args.delim)) = args.delim
       /\ SubSeq(line.to, plen + Len(args.delim) + 1, Len(line.to)) = files[k]

\* C8: in rename mode every file of the sequence is attempted once, in
\* order and numbered by its position, whether or not an earlier rename
\* failed; a failed rename changes nothing in the directory (the file keeps
\* its name, earlier renames stay); and the run ends with success
C8_RenameContinues ==
    /\ [][(InLoop /\ RenameMode) =>
            /\ pc' = "loop" /\ exit' = "running"
            /\ i' = i + 1 /\ files' = files
            /\ out' = Append(out, out'[i + 1])
            /\ Numbered(out'[i + 1], i + 1)
            /\ out'[i + 1].tag \in {"Renamed", "Err"}
            /\ (out'[i + 1].tag = "Err" => dir' = dir)
            /\ (out'[i + 1].tag = "Renamed" => out'[i + 1].to \in Names(dir'))]_vars
    /\ []((pc = "done" /\ RenameMode) => (exit = "Ok" /\ Len(out) = Len(files)))

C8_Witness ==
    /\ pc = "done" /\ RenameMode /\ exit = "Ok"
    /\ Len(out) = 3
    /\ out[1].tag = "Renamed" /\ out[2].tag = "Err" /\ out[3].tag = "Renamed"
    /\ out[1].to \in Names(dir)
    /\ out[2].file \in Names(dir)
    /\ out[3].to \in Names(dir)

\* C9: in revert mode a file whose name has no delimiter is reported as a
\* skip, not as an error, keeps its name, the remaining files are still
\* processed and the program exits with success
C9_SkipGoesOn ==
    (RevertMode /\ pc \in {"loop", "done"}) =>
        \A k \in 1..Len(out) :
            find(files[k], args.delim) = None =>
                /\ out[k].tag = "NotProcessed"
                /\ files[k] \in Names(dir)
                /\ pc = "done" => (exit = "Ok" /\ Len(out) = Len(files))

\* C10: in rename mode no rename replaces another file of the directory:
\* every listed file is still there, under its old or its new name
C10_NoOverwrite ==
    (RenameMode /\ pc \in {"loop", "done"}) =>
        \A k \in 1..Len(files) : \E e \in dir : e.id = files[k]

====
